---------------------------- MODULE Spec2Model ----------------------------
(***************************************************************************)
(* The three programs of the repository over one file system:              *)
(*   merge_pdfs.py      the original script (main)                         *)
(*   pdf_tool_gui.py    the first form-based front end                     *)
(*   pdf_merge_tool.py  the current form-based front end                   *)
(* File names and paths are strings; the string operations of the code     *)
(* (endswith, lower, in, re.match, int, replace, slicing, os.path.join)    *)
(* are computed character by character.                                    *)
(***************************************************************************)
EXTENDS Integers, Sequences, FiniteSets, TLC

VARIABLES
    program,              \* which of the three programs is running
    fs,                   \* file system: directory path -> (file name -> document)
    radio_selection,      \* tk.StringVar: "none" | "auto_merge" | "manual_merge"
    auto_folder_path_var, \* tk.StringVar (folder_path_var in pdf_tool_gui.py)
    output_path_var,      \* tk.StringVar
    pdf1_path_var,        \* tk.StringVar
    pdf2_path_var,        \* tk.StringVar
    output_filename_var,  \* tk.StringVar
    status_var,           \* tk.StringVar shown by status_label
    status_fg,            \* foreground colour of status_label
    merge_button,         \* state of the "Merge PDFs" button
    widgets,              \* state of every other input control
    listing,              \* what os.listdir returned in the last pair_files call
    resolutions,          \* pair_files' resolution bucket (last call)
    stipulations,         \* pair_files' stipulation bucket (last call)
    pairs,                \* pair_files' return value (last call)
    written,              \* merger.write calls of the last merge, in order
    runs                  \* merges started so far

vars == <<program, fs, radio_selection, auto_folder_path_var, output_path_var,
          pdf1_path_var, pdf2_path_var, output_filename_var, status_var,
          status_fg, merge_button, widgets, listing, resolutions,
          stipulations, pairs, written, runs>>

---------------------------------------------------------------------------
(* Bounds of the model. *)

\* files in the input folder when merge_pdfs.py starts
MaxFiles == 3
\* files in the input folder when a front end starts
MaxGuiFiles == 2
\* merges one front end session starts
MaxRuns == 2

---------------------------------------------------------------------------
(* Python's str operations. *)

At(s, i) == SubSeq(s, i, i)

\* str.endswith
endswith(s, suffix) ==
    /\ Len(s) >= Len(suffix)
    /\ SubSeq(s, Len(s) - Len(suffix) + 1, Len(s)) = suffix

\* the occurrence test of "sub in s" at one position
OccursAt(s, sub, i) ==
    /\ i >= 1
    /\ i + Len(sub) - 1 <= Len(s)
    /\ SubSeq(s, i, i + Len(sub) - 1) = sub

\* "sub in s"
contains(s, sub) == \E i \in 1..(Len(s) - Len(sub) + 1) : OccursAt(s, sub, i)

UpperCase == "ABCDEFGHIJKLMNOPQRSTUVWXYZ"
LowerCase == "abcdefghijklmnopqrstuvwxyz"

\* the lower-case letter of each upper-case letter
LowerOf ==
    [c \in {At(UpperCase, i) : i \in 1..Len(UpperCase)} |->
        At(LowerCase, CHOOSE i \in 1..Len(UpperCase) : At(UpperCase, i) = c)]

LowerChar(c) == IF c \in DOMAIN LowerOf THEN LowerOf[c] ELSE c

\* str.lower
RECURSIVE lower(_)
lower(s) ==
    IF s = "" THEN "" ELSE LowerChar(At(s, 1)) \o lower(SubSeq(s, 2, Len(s)))

\* str.replace(old, new): every non-overlapping occurrence, left to right
RECURSIVE replace(_, _, _)
replace(s, old, new) ==
    IF s = "" THEN ""
    ELSE IF OccursAt(s, old, 1)
         THEN new \o replace(SubSeq(s, Len(old) + 1, Len(s)), old, new)
         ELSE At(s, 1) \o replace(SubSeq(s, 2, Len(s)), old, new)

\* s[-n:]
LastChars(s, n) == IF Len(s) <= n THEN s ELSE SubSeq(s, Len(s) - n + 1, Len(s))

Digits == "0123456789"
\* the value of each digit
ValueOf ==
    [c \in {At(Digits, i) : i \in 1..Len(Digits)} |->
        (CHOOSE i \in 1..Len(Digits) : At(Digits, i) = c) - 1]
IsDigit(c) == c \in DOMAIN ValueOf
DigitValue(c) == ValueOf[c]
\* the characters the pattern's \s matches (those a file name here can hold)
IsSpace(c) == c \in {" ", "\t"}

\* length of the longest prefix of s from position i on made of spaces (\s*)
RECURSIVE SpaceRun(_, _)
SpaceRun(s, i) ==
    IF i <= Len(s) /\ IsSpace(At(s, i)) THEN 1 + SpaceRun(s, i + 1) ELSE 0

\* length of the longest run of digits of s from position i on (\d+ when > 0)
RECURSIVE DigitRun(_, _)
DigitRun(s, i) ==
    IF i <= Len(s) /\ IsDigit(At(s, i)) THEN 1 + DigitRun(s, i + 1) ELSE 0

\* re.match(r"\s*\d+", filename): None, or the matched text (match.group())
None == {}
Some(v) == {v}
TheValue(o) == CHOOSE v \in o : TRUE

\* (mutant) re.search: the first run of digits anywhere in the name
re_search(filename) ==
    IF \E i \in 1..Len(filename) : IsDigit(At(filename, i))
    THEN LET first == CHOOSE i \in 1..Len(filename) :
                          /\ IsDigit(At(filename, i))
                          /\ \A j \in 1..(i - 1) : ~IsDigit(At(filename, j))
         IN  Some(SubSeq(filename, first, first + DigitRun(filename, first) - 1))
    ELSE None

re_match(filename) ==
    LET sp == SpaceRun(filename, 1)
        dg == DigitRun(filename, sp + 1)
    IN  IF dg > 0 THEN Some(SubSeq(filename, 1, sp + dg)) ELSE None

\* int(text): surrounding whitespace is stripped, the digits read in base ten
RECURSIVE int_digits(_, _)
int_digits(text, acc) ==
    IF text = "" THEN acc
    ELSE int_digits(SubSeq(text, 2, Len(text)), 10 * acc + DigitValue(At(text, 1)))

int(text) ==
    LET sp == SpaceRun(text, 1)
    IN  int_digits(SubSeq(text, sp + 1, Len(text)), 0)

\* extract_number: an integer (Some) or None
extract_number(filename) ==
    LET match == re_match(filename)
    IN  IF match # None THEN Some(int(TheValue(match))) ELSE None

---------------------------------------------------------------------------
(* The file system, and the os / os.path calls the programs make. *)

\* the working directory of the process: where a relative path is looked up
Cwd == "."
\* input_folder and output_folder of merge_pdfs.py (the paths shortened); the
\* front ends' folder pickers offer the same two folders
InDir == "C:/Components"
OutDir == "C:/wSTIPS"

\* a document: the pages of a PDF, or a file that is no PDF
PdfDoc(pages) == [pdf |-> TRUE, pages |-> pages]
NotPdf == [pdf |-> FALSE, pages |-> <<>>]

\* position of the last "/" of a path, 0 when there is none
RECURSIVE LastSlash(_, _)
LastSlash(path, i) ==
    IF i = 0 THEN 0
    ELSE IF At(path, i) = "/" THEN i ELSE LastSlash(path, i - 1)

\* os.path.dirname, a relative name resolved against the working directory
DirOf(path) ==
    LET k == LastSlash(path, Len(path))
    IN  IF k = 0 THEN Cwd ELSE SubSeq(path, 1, k - 1)

\* os.path.basename
BaseOf(path) == SubSeq(path, LastSlash(path, Len(path)) + 1, Len(path))

\* os.path.join(a, b)
join(a, b) ==
    IF OccursAt(b, "/", 1) THEN b
    ELSE IF a = "" \/ endswith(a, "/") THEN a \o b
    ELSE a \o "/" \o b

\* os.path.isdir
isdir(f, path) == path # "" /\ path \in DOMAIN f

\* os.path.isfile
isfile(f, path) ==
    /\ path # ""
    /\ DirOf(path) \in DOMAIN f
    /\ BaseOf(path) \in DOMAIN f[DirOf(path)]

\* the orders in which os.listdir may return the names of a directory
Orders(S) ==
    {o \in [1..Cardinality(S) -> S] : \A i, j \in DOMAIN o : o[i] = o[j] => i = j}

\* os.listdir(path): the set of possible results; empty when the call raises
listdir(f, path) == IF isdir(f, path) THEN Orders(DOMAIN f[path]) ELSE {}

\* the file at path after a write of doc (open(path, "wb") succeeded)
WriteFile(f, path, doc) ==
    LET d == DirOf(path)
        b == BaseOf(path)
    IN  [f EXCEPT ![d] = [n \in (DOMAIN @) \cup {b} |-> IF n = b THEN doc ELSE @[n]]]

\* whether open(path, "wb") succeeds: the folder exists, the name is a file name
CanWrite(f, path) ==
    /\ DirOf(path) \in DOMAIN f
    /\ BaseOf(path) # ""
    /\ path \notin DOMAIN f

---------------------------------------------------------------------------
(* pypdf's PdfWriter: a merger is the sequence of pages appended so far. *)

\* PdfWriter()
PdfWriter == <<>>

\* whether merger.append(path) succeeds: the path is a readable PDF
CanAppend(f, path) == isfile(f, path) /\ f[DirOf(path)][BaseOf(path)].pdf

\* (mutant) the pages of the file are put before the others
append_before(merger, f, path) == f[DirOf(path)][BaseOf(path)].pages \o merger

\* merger.append(path): the pages of the file are added after the others
append(merger, f, path) == merger \o f[DirOf(path)][BaseOf(path)].pages

\* merger.append(file) for each file of files, in order: the merger, or None
\* when an append raises
RECURSIVE append_all(_, _, _)
append_all(merger, f, files) ==
    IF files = <<>> THEN Some(merger)
    ELSE IF CanAppend(f, Head(files))
         THEN append_all(append(merger, f, Head(files)), f, Tail(files))
         ELSE None

---------------------------------------------------------------------------
(* pair_files: the classifier and the pairing stage.  Each operator takes   *)
(* files, the result of os.listdir(directory).                             *)

\* (mutant) the marker looked up in the name as it is, not lowercased
is_resolution_cased(filename) ==
    endswith(filename, ".pdf") /\ contains(filename, "cb3 reso")

\* merge_pdfs.py: the test of the if branch
is_resolution(filename) ==
    endswith(filename, ".pdf") /\ contains(lower(filename), "cb3 reso")

\* merge_pdfs.py: the test of the elif branch, reached when the if test fails
is_stipulation(filename) ==
    /\ ~is_resolution(filename)
    /\ endswith(filename, ".pdf") /\ ~contains(lower(filename), "cb3 reso")

\* the front ends: the test of the if branch
auto_is_resolution(filename) ==
    /\ endswith(filename, ".pdf") /\ contains(lower(filename), "cb3 reso")
    /\ re_match(filename) # None

\* the front ends: the test of the elif branch
auto_is_stipulation(filename) ==
    /\ ~auto_is_resolution(filename)
    /\ endswith(filename, ".pdf") /\ ~contains(lower(filename), "cb3 reso")
    /\ re_match(filename) # None

\* (mutant) every .pdf is taken for a stipulation
pair_stipulations_all(files) == SelectSeq(files, LAMBDA x : endswith(x, ".pdf"))

pair_resolutions(files) == SelectSeq(files, is_resolution)
pair_stipulations(files) == SelectSeq(files, is_stipulation)
auto_resolutions(files) == SelectSeq(files, auto_is_resolution)
auto_stipulations(files) == SelectSeq(files, auto_is_stipulation)

\* (mutant) the keys compared as the matched text, not as integers
same_number_text(r, s) == re_match(r) = re_match(s)

\* the comparison of the two keys: Python's == on int or None
same_number(r, s) == extract_number(r) = extract_number(s)

\* (mutant) the inner loop stops at the first stipulation that matches
RECURSIVE pair_inner_first(_, _)
pair_inner_first(r, ss) ==
    IF ss = <<>> THEN <<>>
    ELSE IF same_number(r, Head(ss)) THEN <<(<<r, Head(ss)>>)>>
         ELSE pair_inner_first(r, Tail(ss))

\* "for s in stipulations: if ...: pairs.append([r, s])" for one r
RECURSIVE pair_inner(_, _)
pair_inner(r, ss) ==
    IF ss = <<>> THEN <<>>
    ELSE (IF same_number(r, Head(ss)) THEN <<(<<r, Head(ss)>>)>> ELSE <<>>)
         \o pair_inner(r, Tail(ss))

\* "for r in resolutions: for s in stipulations: ..."
RECURSIVE pair_loop(_, _)
pair_loop(rs, ss) ==
    IF rs = <<>> THEN <<>>
    ELSE pair_inner(Head(rs), ss) \o pair_loop(Tail(rs), ss)

\* merge_pdfs.py pair_files: always a list
pair_files(files) == Some(pair_loop(pair_resolutions(files), pair_stipulations(files)))

\* the front ends' pair_files: None when a bucket is empty, else the list
auto_pair_files(files) ==
    IF ~(auto_resolutions(files) # <<>> /\ auto_stipulations(files) # <<>>)
    THEN None
    ELSE Some(pair_loop(auto_resolutions(files), auto_stipulations(files)))

\* Python's truth value of pairs ("if pairs:"): neither None nor empty
truthy(ps) == ps # None /\ TheValue(ps) # <<>>

\* the list "for p in pairs" runs over (only reached with a list)
pair_list(ps) == IF ps = None THEN <<>> ELSE TheValue(ps)

---------------------------------------------------------------------------
(* The merge stage. *)

\* output_filename = p[0].replace(".pdf", " wSTIPS.pdf")
output_name_of(p) == replace(p[1], ".pdf", " wSTIPS.pdf")

\* one merger.write: the path written, the pages, and the sources appended
WriteRecord(path, pages, sources) ==
    [path |-> path, pages |-> pages, sources |-> sources]

\* One merge: a fresh PdfWriter, sources appended in order, the result written
\* to output_path.  st is [fs, written, raised]; an exception of append or write
\* leaves the file system as it was and is passed on (raised).
merge_one(st, sources, output_path) ==
    LET merger == append_all(PdfWriter, st.fs, sources)
    IN  IF merger = None \/ ~CanWrite(st.fs, output_path)
        THEN [st EXCEPT !.raised = TRUE]
        ELSE [fs |-> WriteFile(st.fs, output_path, PdfDoc(TheValue(merger))),
              written |-> Append(st.written,
                                 WriteRecord(output_path, TheValue(merger), sources)),
              raised |-> FALSE]

\* (mutant) the loop catches a pair's exception and goes on with the next pair
RECURSIVE merge_loop_continue(_, _, _, _)
merge_loop_continue(st, ps, input_folder, output_folder) ==
    IF ps = <<>> THEN st
    ELSE LET p == Head(ps)
             sources == <<join(input_folder, p[1]), join(input_folder, p[2])>>
             output_path == join(output_folder, output_name_of(p))
         IN  merge_loop_continue(merge_one([st EXCEPT !.raised = FALSE],
                                           sources, output_path),
                                 Tail(ps), input_folder, output_folder)

\* "for p in pairs:" of main and of auto_merge_pdfs; stops at the first exception
RECURSIVE merge_loop(_, _, _, _)
merge_loop(st, ps, input_folder, output_folder) ==
    IF ps = <<>> \/ st.raised THEN st
    ELSE LET p == Head(ps)
             sources == <<join(input_folder, p[1]), join(input_folder, p[2])>>
             output_path == join(output_folder, output_name_of(p))
         IN  merge_loop(merge_one(st, sources, output_path), Tail(ps),
                        input_folder, output_folder)

\* the state a merge starts from
MergeStart(f) == [fs |-> f, written |-> <<>>, raised |-> FALSE]

---------------------------------------------------------------------------
(* The form of the two front ends.  A handler is a function of the form g   *)
(* (the Tk variables and widget states) and the file system f; a write to a *)
(* traced variable runs its trace callback before the next statement.       *)

Programs == {"merge_pdfs", "pdf_tool_gui", "pdf_merge_tool"}

Form == [radio_selection |-> radio_selection,
         auto_folder_path_var |-> auto_folder_path_var,
         output_path_var |-> output_path_var,
         pdf1_path_var |-> pdf1_path_var,
         pdf2_path_var |-> pdf2_path_var,
         output_filename_var |-> output_filename_var,
         status_var |-> status_var,
         status_fg |-> status_fg,
         merge_button |-> merge_button,
         widgets |-> widgets]

\* folder_contains_pdfs
folder_contains_pdfs(f, folder) ==
    IF ~isdir(f, folder) THEN FALSE
    ELSE \E name \in DOMAIN f[folder] : endswith(lower(name), ".pdf")

\* is_pdf_file
is_pdf_file(f, filepath) == isfile(f, filepath) /\ endswith(lower(filepath), ".pdf")

\* pdf_merge_tool.py show_feedback
show_feedback(g, message, color) ==
    [g EXCEPT !.status_var = message, !.status_fg = color]

\* (mutant) check_for_inputs without the output filename among the manual fields
check_for_inputs_no_name(g) ==
    IF g.radio_selection = "auto_merge"
    THEN IF g.auto_folder_path_var # "" /\ g.output_path_var # ""
         THEN show_feedback([g EXCEPT !.merge_button = "normal"], "Ready", "green")
         ELSE [g EXCEPT !.merge_button = "disabled"]
    ELSE IF g.pdf1_path_var # "" /\ g.pdf2_path_var # "" /\ g.output_path_var # ""
         THEN show_feedback([g EXCEPT !.merge_button = "normal"], "Ready", "green")
         ELSE [g EXCEPT !.merge_button = "disabled"]

\* pdf_merge_tool.py check_for_inputs
check_for_inputs(g) ==
    IF g.radio_selection = "auto_merge"
    THEN IF g.auto_folder_path_var # "" /\ g.output_path_var # ""
         THEN show_feedback([g EXCEPT !.merge_button = "normal"], "Ready", "green")
         ELSE [g EXCEPT !.merge_button = "disabled"]
    ELSE IF /\ g.pdf1_path_var # "" /\ g.pdf2_path_var # ""
            /\ g.output_filename_var # "" /\ g.output_path_var # ""
         THEN show_feedback([g EXCEPT !.merge_button = "normal"], "Ready", "green")
         ELSE [g EXCEPT !.merge_button = "disabled"]

\* pdf_tool_gui.py on_folder_change
on_folder_change(g, f) ==
    IF g.radio_selection = "auto_merge"
    THEN IF /\ isdir(f, g.auto_folder_path_var)
            /\ folder_contains_pdfs(f, g.auto_folder_path_var)
         THEN [g EXCEPT !.merge_button = "normal", !.status_var = "Ready"]
         ELSE [g EXCEPT !.merge_button = "disabled",
                        !.status_var = "Invalid folder selection - verify choice is a valid folder with PDF files."]
    ELSE IF isdir(f, g.output_path_var)
         THEN [g EXCEPT !.merge_button = "normal", !.status_var = "Ready"]
         ELSE [g EXCEPT !.merge_button = "disabled",
                        !.status_var = "Invalid output folder selection."]

\* pdf_tool_gui.py on_file_change
on_file_change(g, f) ==
    LET file1 == is_pdf_file(f, g.pdf1_path_var)
        file2 == is_pdf_file(f, g.pdf2_path_var)
    IN  IF file1 /\ file2
        THEN [g EXCEPT !.merge_button = "normal", !.status_var = "Ready"]
        ELSE IF ~file1 /\ file2
        THEN [g EXCEPT !.merge_button = "disabled",
                       !.status_var = "Invalid file selection - verify that PDF #1 is a PDF file."]
        ELSE IF file1 /\ ~file2
        THEN [g EXCEPT !.merge_button = "disabled",
                       !.status_var = "Invalid file selection - verify that PDF #2 is a PDF file."]
        ELSE [g EXCEPT !.merge_button = "disabled",
                       !.status_var = "Invalid file selection - verify that chosen files are PDF files."]

\* the trace_add("write", ...) registrations: the callback a write to var runs
trace(prog, g, f, var) ==
    IF prog = "pdf_merge_tool"
    THEN check_for_inputs(g)
    ELSE IF var \in {"auto_folder_path_var", "output_path_var"}
         THEN on_folder_change(g, f)
         ELSE IF var \in {"pdf1_path_var", "pdf2_path_var"}
              THEN on_file_change(g, f)
              ELSE g

\* var.set(value) on a form variable: the write, then its trace callback
set_var(prog, g, f, var, value) == trace(prog, [g EXCEPT ![var] = value], f, var)

\* "for field in [...]: field.set("")" of on_radio_option_change
clear_fields(prog, g, f) ==
    LET g1 == set_var(prog, g, f, "auto_folder_path_var", "")
        g2 == set_var(prog, g1, f, "output_path_var", "")
        g3 == set_var(prog, g2, f, "pdf1_path_var", "")
    IN  set_var(prog, g3, f, "pdf2_path_var", "")

\* the widget.config(state=...) calls of on_radio_option_change
config_widgets(prog, w, radio) ==
    IF prog = "pdf_merge_tool"
    THEN IF radio = "auto_merge"
         THEN [w EXCEPT !.folder_field = "normal", !.browse_button = "normal",
                        !.output_browse_button = "normal",
                        !.chosen_pdf_1 = "disabled", !.chosen_pdf_2 = "disabled",
                        !.output_name = "disabled",
                        !.browse_pdf1_button = "disabled",
                        !.browse_pdf2_button = "disabled"]
         ELSE [w EXCEPT !.chosen_pdf_1 = "normal", !.chosen_pdf_2 = "normal",
                        !.output_name = "normal", !.output_folder_field = "normal",
                        !.browse_pdf1_button = "normal",
                        !.browse_pdf2_button = "normal",
                        !.output_browse_button = "normal",
                        !.browse_button = "disabled", !.folder_field = "disabled"]
    ELSE IF radio = "auto_merge"
         THEN [w EXCEPT !.browse_button = "normal",
                        !.browse_pdf1_button = "disabled",
                        !.browse_pdf2_button = "disabled"]
         ELSE [w EXCEPT !.browse_pdf1_button = "normal",
                        !.browse_pdf2_button = "normal",
                        !.browse_button = "disabled"]

\* on_radio_option_change; the Radiobutton has set radio_selection before
on_radio_option_change(prog, g, f) ==
    LET g1 == clear_fields(prog, [g EXCEPT !.status_var = ""], f)
    IN  [g1 EXCEPT !.widgets = config_widgets(prog, g1.widgets, g1.radio_selection)]


\* (mutant) a validation that accepts every form
validate_inputs_lax(g, f) == [valid |-> TRUE, g |-> g]

\* pdf_merge_tool.py validate_inputs: [valid, g], g the form with its feedback
validate_inputs(g, f) ==
    LET pdf1 == is_pdf_file(f, g.pdf1_path_var)
        pdf2 == is_pdf_file(f, g.pdf2_path_var)
        valid_pdfs == pdf1 /\ pdf2
        valid_output_filename == LastChars(g.output_filename_var, 4) = ".pdf"
        auto == g.radio_selection = "auto_merge"
        valid_auto == /\ isdir(f, g.auto_folder_path_var)
                      /\ folder_contains_pdfs(f, g.auto_folder_path_var)
        valid_inputs == IF auto THEN valid_auto
                        ELSE valid_pdfs /\ valid_output_filename
        valid_output_folder == isdir(f, g.output_path_var)
        \* the auto branch
        ga == IF valid_auto THEN g
              ELSE show_feedback(g, "Folder does not contain PDF files", "red")
        \* the manual branch: the file selections, then the output filename
        gm1 == IF pdf1 /\ pdf2 THEN g
               ELSE IF ~pdf1 /\ pdf2
               THEN show_feedback(g, "Invalid file selection - verify that PDF #1 is a PDF file", "red")
               ELSE IF pdf1 /\ ~pdf2
               THEN show_feedback(g, "Invalid file selection - verify that PDF #2 is a PDF file", "red")
               ELSE show_feedback(g, "Invalid file selections - verify that chosen files are PDF files", "red")
        gm2 == IF valid_output_filename THEN gm1
               ELSE show_feedback(gm1, "Output filename must end with .pdf", "red")
        g1 == IF auto THEN ga ELSE gm2
        \* both modes: the output folder
        g2 == IF valid_output_folder THEN g1
              ELSE show_feedback(g1, "Invalid output folder selection", "red")
    IN  [valid |-> valid_inputs /\ valid_output_folder, g |-> g2]

\* the feedback of a merge that ran to its end
merge_completed(prog, g) ==
    IF prog = "pdf_merge_tool"
    THEN show_feedback(g, "Merge completed successfully.", "green")
    ELSE [g EXCEPT !.status_var = "Merge completed successfully."]

\* the else branch of "if pairs:" in auto_merge_pdfs
no_pairs(prog, g) ==
    IF prog = "pdf_merge_tool"
    THEN g
    ELSE [g EXCEPT !.status_var = "Error: folder does not contain files valid for auto-merge"]

\* auto_merge_pdfs(selected_folder, output_folder) once os.listdir returned
\* files: [g, st, pairs], st the merge's outcome on the file system
auto_merge_pdfs(prog, g, f, files, selected_folder, output_folder) ==
    LET ps == auto_pair_files(files)
        st == IF truthy(ps)
              THEN merge_loop(MergeStart(f), pair_list(ps), selected_folder, output_folder)
              ELSE MergeStart(f)
    IN  [g |-> IF truthy(ps)
               THEN (IF st.raised THEN g ELSE merge_completed(prog, g))
               ELSE no_pairs(prog, g),
         st |-> st,
         pairs |-> ps]

\* manual_merge_pdfs(file1, file2, output_filename, output_folder): [g, st]
manual_merge_pdfs(prog, g, f, file1, file2, output_filename, output_folder) ==
    LET st == merge_one(MergeStart(f), <<file1, file2>>,
                        join(output_folder, output_filename))
    IN  [g |-> IF st.raised \/ prog # "pdf_merge_tool" THEN g
               ELSE show_feedback(g, "Merge completed successfully.", "green"),
         st |-> st]

---------------------------------------------------------------------------
(* The inputs: what the input folder holds at the start, and what the       *)
(* operator types or picks.                                                 *)

\* file names the input folder of merge_pdfs.py may hold
Names == {"12 cb3 reso.pdf", " 012 CB3 Reso.pdf", "12.pdf cb3 reso.pdf", "cb3 reso.pdf",
          "12 stipulation.pdf", "12 b.pdf", "2 stip.pdf", "stip.pdf",
          "12 notes.txt", "12 scan.PDF",
          "007 cb3 reso.pdf", " 7 stips.pdf", "7 lot 12.pdf", "12 damaged.pdf"}
\* file names the input folder of a front end may hold
GuiNames == {"12 cb3 reso.pdf", "cb3 reso.pdf", "12 stipulation.pdf", "2 stip.pdf", "12 notes.txt",
             "stip.pdf", "12 damaged.pdf"}
\* files named .pdf that pypdf cannot read
Damaged == {"12 damaged.pdf"}

Missing == "C:/missing"
\* what the operator puts in each field
InputFolderChoices == {InDir, Missing}
OutputFolderChoices == {OutDir, InDir, Missing}
Pdf1Choices == {join(InDir, "12 cb3 reso.pdf"), join(InDir, "12 notes.txt")}
Pdf2Choices == {join(InDir, "12 stipulation.pdf")}
NameChoices == {"merged.pdf", "merged"}

\* a file's content at the start: a file named .pdf is a PDF of two pages,
\* unless it is damaged
InitialDoc(name) ==
    IF endswith(lower(name), ".pdf") /\ name \notin Damaged
    THEN PdfDoc(<<name \o "#1", name \o "#2">>)
    ELSE NotPdf

Folder(S) == [n \in S |-> InitialDoc(n)]

\* the widgets as constructed (state=... of each constructor)
InitialWidgets(prog) ==
    IF prog = "pdf_tool_gui"
    THEN [folder_field |-> "normal", browse_button |-> "disabled",
          chosen_pdf_1 |-> "normal", browse_pdf1_button |-> "disabled",
          chosen_pdf_2 |-> "normal", browse_pdf2_button |-> "disabled",
          output_name |-> "normal", output_folder_field |-> "normal",
          output_browse_button |-> "normal"]
    ELSE [folder_field |-> "disabled", browse_button |-> "disabled",
          chosen_pdf_1 |-> "disabled", browse_pdf1_button |-> "disabled",
          chosen_pdf_2 |-> "disabled", browse_pdf2_button |-> "disabled",
          output_name |-> "disabled", output_folder_field |-> "disabled",
          output_browse_button |-> "disabled"]

Init ==
    /\ program \in Programs
    /\ \E S \in SUBSET Names :
          /\ IF program = "merge_pdfs"
             THEN Cardinality(S) <= MaxFiles
             ELSE S \subseteq GuiNames /\ Cardinality(S) <= MaxGuiFiles
          /\ \E D \in {{Cwd, InDir, OutDir}, {Cwd, InDir}} :
                /\ program # "merge_pdfs" => OutDir \in D
                /\ fs = [d \in D |-> IF d = InDir THEN Folder(S) ELSE Folder({})]
    /\ radio_selection = "none"
    /\ auto_folder_path_var = ""
    /\ output_path_var = ""
    /\ pdf1_path_var = ""
    /\ pdf2_path_var = ""
    /\ output_filename_var = ""
    /\ status_var = ""
    /\ status_fg = IF program = "pdf_tool_gui" THEN "red" ELSE "default"
    /\ merge_button = "disabled"
    /\ widgets = InitialWidgets(program)
    /\ listing = <<>>
    /\ resolutions = <<>>
    /\ stipulations = <<>>
    /\ pairs = None
    /\ written = <<>>
    /\ runs = 0

---------------------------------------------------------------------------
(* The operations. *)

FormVars == <<radio_selection, auto_folder_path_var, output_path_var,
              pdf1_path_var, pdf2_path_var, output_filename_var, status_var,
              status_fg, merge_button, widgets>>
PairVars == <<listing, resolutions, stipulations, pairs>>

\* the form after a handler
Apply(g) ==
    /\ radio_selection' = g.radio_selection
    /\ auto_folder_path_var' = g.auto_folder_path_var
    /\ output_path_var' = g.output_path_var
    /\ pdf1_path_var' = g.pdf1_path_var
    /\ pdf2_path_var' = g.pdf2_path_var
    /\ output_filename_var' = g.output_filename_var
    /\ status_var' = g.status_var
    /\ status_fg' = g.status_fg
    /\ merge_button' = g.merge_button
    /\ widgets' = g.widgets

\* os.makedirs(output_folder, exist_ok=True)
makedirs(f, folder) ==
    IF folder \in DOMAIN f THEN f
    ELSE [d \in (DOMAIN f) \cup {folder} |-> IF d = folder THEN Folder({}) ELSE f[d]]

\* merge_pdfs.py main(): the whole script
main ==
    /\ program = "merge_pdfs"
    /\ runs = 0
    /\ LET f1 == makedirs(fs, OutDir)
       IN  \E files \in listdir(f1, InDir) :
              LET ps == pair_files(files)
                  st == merge_loop(MergeStart(f1), pair_list(ps), InDir, OutDir)
              IN  /\ listing' = files
                  /\ resolutions' = pair_resolutions(files)
                  /\ stipulations' = pair_stipulations(files)
                  /\ pairs' = ps
                  /\ fs' = st.fs
                  /\ written' = st.written
    /\ runs' = 1
    /\ UNCHANGED <<program, FormVars>>

IsGui == program \in {"pdf_tool_gui", "pdf_merge_tool"}

\* the window is open: a session ends with its last merge
Editing == IsGui /\ runs < MaxRuns

\* a click on a radio button: the variable is set, then the command runs
SelectRadio ==
    /\ Editing
    /\ \E mode \in {"auto_merge", "manual_merge"} :
          Apply(on_radio_option_change(program, [Form EXCEPT !.radio_selection = mode], fs))
    /\ UNCHANGED <<program, fs, PairVars, written, runs>>

\* the operator edits the text of folder_field: a write to its variable
TypeFolder ==
    /\ Editing
    /\ widgets.folder_field = "normal"
    /\ \E v \in InputFolderChoices \cup {""} :
          Apply(set_var(program, Form, fs, "auto_folder_path_var", v))
    /\ UNCHANGED <<program, fs, PairVars, written, runs>>

\* the operator edits the text of output_folder_field: a write to its variable
TypeOutputFolder ==
    /\ Editing
    /\ widgets.output_folder_field = "normal"
    /\ \E v \in OutputFolderChoices \cup {""} :
          Apply(set_var(program, Form, fs, "output_path_var", v))
    /\ UNCHANGED <<program, fs, PairVars, written, runs>>

\* the operator edits the text of chosen_pdf_1: a write to its variable
TypePdf1 ==
    /\ Editing
    /\ widgets.chosen_pdf_1 = "normal"
    /\ \E v \in Pdf1Choices \cup {""} :
          Apply(set_var(program, Form, fs, "pdf1_path_var", v))
    /\ UNCHANGED <<program, fs, PairVars, written, runs>>

\* the operator edits the text of chosen_pdf_2: a write to its variable
TypePdf2 ==
    /\ Editing
    /\ widgets.chosen_pdf_2 = "normal"
    /\ \E v \in Pdf2Choices \cup {""} :
          Apply(set_var(program, Form, fs, "pdf2_path_var", v))
    /\ UNCHANGED <<program, fs, PairVars, written, runs>>

\* the operator edits the text of output_name: a write to its variable
TypeOutputName ==
    /\ Editing
    /\ widgets.output_name = "normal"
    /\ \E v \in NameChoices \cup {""} :
          Apply(set_var(program, Form, fs, "output_filename_var", v))
    /\ UNCHANGED <<program, fs, PairVars, written, runs>>

\* browse_input_folder: the dialog returns a folder that exists
browse_input_folder ==
    /\ Editing
    /\ widgets.browse_button = "normal"
    /\ \E folder_selected \in {d \in InputFolderChoices : isdir(fs, d)} :
          Apply(set_var(program, Form, fs, "auto_folder_path_var", folder_selected))
    /\ UNCHANGED <<program, fs, PairVars, written, runs>>

\* browse_output_folder
browse_output_folder ==
    /\ Editing
    /\ widgets.output_browse_button = "normal"
    /\ \E folder_selected \in {d \in OutputFolderChoices : isdir(fs, d)} :
          Apply(set_var(program, Form, fs, "output_path_var", folder_selected))
    /\ UNCHANGED <<program, fs, PairVars, written, runs>>

\* browse_file(pdf_number): the dialog returns a file that exists
browse_file ==
    /\ Editing
    /\ \E pdf_number \in {"pdf1", "pdf2"} :
          /\ widgets[IF pdf_number = "pdf1" THEN "browse_pdf1_button"
                     ELSE "browse_pdf2_button"] = "normal"
          /\ \E file_selected \in {p \in (IF pdf_number = "pdf1" THEN Pdf1Choices
                                           ELSE Pdf2Choices) : isfile(fs, p)} :
                Apply(set_var(program, Form, fs,
                              IF pdf_number = "pdf1" THEN "pdf1_path_var"
                              ELSE "pdf2_path_var", file_selected))
    /\ UNCHANGED <<program, fs, PairVars, written, runs>>

\* a run that does not reach pair_files has no listing, buckets or pairs
NoPairVars ==
    /\ listing' = <<>>
    /\ resolutions' = <<>>
    /\ stipulations' = <<>>
    /\ pairs' = None

\* the call of auto_merge_pdfs from on_merge_click, g the form at the call
AutoMerge(g) ==
    IF ~isdir(fs, g.auto_folder_path_var)
    THEN \* os.listdir raises: the handler ends there, with no list and no write
         /\ Apply(g)
         /\ NoPairVars
         /\ written' = <<>>
         /\ UNCHANGED fs
    ELSE \E files \in listdir(fs, g.auto_folder_path_var) :
            LET r == auto_merge_pdfs(program, g, fs, files,
                                     g.auto_folder_path_var, g.output_path_var)
            IN  /\ Apply(r.g)
                /\ listing' = files
                /\ resolutions' = auto_resolutions(files)
                /\ stipulations' = auto_stipulations(files)
                /\ pairs' = r.pairs
                /\ fs' = r.st.fs
                /\ written' = r.st.written

\* the call of manual_merge_pdfs from on_merge_click
ManualMerge(g) ==
    LET r == manual_merge_pdfs(program, g, fs, g.pdf1_path_var, g.pdf2_path_var,
                               g.output_filename_var, g.output_path_var)
    IN  /\ Apply(r.g)
        /\ fs' = r.st.fs
        /\ written' = r.st.written
        /\ NoPairVars

\* on_merge_click: a click on the enabled "Merge PDFs" button
on_merge_click ==
    /\ IsGui
    /\ merge_button = "normal"
    /\ LET v == IF program = "pdf_merge_tool" THEN validate_inputs(Form, fs)
                ELSE [valid |-> TRUE, g |-> Form]
       IN  IF ~v.valid
           THEN /\ Apply(v.g)
                /\ UNCHANGED <<fs, PairVars, written, runs>>
           ELSE /\ runs < MaxRuns
                /\ runs' = runs + 1
                /\ IF radio_selection = "auto_merge"
                   THEN AutoMerge(v.g)
                   ELSE ManualMerge(v.g)
    /\ UNCHANGED program

Next ==
    \/ main
    \/ SelectRadio
    \/ TypeFolder
    \/ TypeOutputFolder
    \/ TypePdf1
    \/ TypePdf2
    \/ TypeOutputName
    \/ browse_input_folder
    \/ browse_output_folder
    \/ browse_file
    \/ on_merge_click

Spec == Init /\ [][Next]_vars

---------------------------------------------------------------------------
(* The claims. *)

Range(seq) == {seq[i] : i \in DOMAIN seq}

\* the pairs the last pair_files call returned, as a set
PairSet == Range(pair_list(pairs))

\* a name starts with optional whitespace followed by digits
HasLeadingInteger(name) ==
    \E k \in 1..Len(name) :
        /\ IsDigit(At(name, k))
        /\ \A j \in 1..(k - 1) : IsSpace(At(name, j))

\* a file the claims call a resolution / a stipulation
IsResolutionFile(name) == endswith(name, ".pdf") /\ contains(lower(name), "cb3 reso")
IsStipulationFile(name) == endswith(name, ".pdf") /\ ~contains(lower(name), "cb3 reso")

\* a step in which the automatic flow runs: main, or auto_merge_pdfs called
\* from a click
AutoRunStep ==
    /\ runs' = runs + 1
    /\ program = "merge_pdfs" \/ radio_selection = "auto_merge"

\* C1: a file whose name lacks a leading integer never appears in a pair that
\* pair_files produced, in the script as well as in the front ends.
C1_NumberlessNeverPaired ==
    \A p \in PairSet : HasLeadingInteger(p[1]) /\ HasLeadingInteger(p[2])

\* C2: when a resolution file and a stipulation file of the listing begin with
\* the same leading integer, the list pair_files returned contains
\* [resolution, stipulation].
C2_SameIntegerPaired ==
    \A r, s \in Range(listing) :
        ( /\ IsResolutionFile(r) /\ IsStipulationFile(s)
          /\ HasLeadingInteger(r) /\ HasLeadingInteger(s)
          /\ extract_number(r) = extract_number(s) )
        => pairs # None /\ <<r, s>> \in PairSet

\* C2's case: a front end paired a resolution and a stipulation of equal key
C2_Witness ==
    /\ program = "pdf_merge_tool"
    /\ Range(listing) = {"12 cb3 reso.pdf", "12 stipulation.pdf"}
    /\ PairSet = {<<"12 cb3 reso.pdf", "12 stipulation.pdf">>}

\* the resolution's name with only its trailing ".pdf" replaced by " wSTIPS.pdf"
TrailingReplaced(name) == SubSeq(name, 1, Len(name) - 4) \o " wSTIPS.pdf"

\* C3: every pair merged by the automatic flow is written under the
\* resolution's file name with only its trailing ".pdf" replaced by
\* " wSTIPS.pdf".
C3_OutputNameTrailingOnly ==
    [][AutoRunStep =>
          \A i \in DOMAIN written' :
              BaseOf(written'[i].path) = TrailingReplaced(BaseOf(written'[i].sources[1]))]_vars


\* the messages with which a front end reports an input it rejects
ValidationMessages ==
    {"Invalid folder selection - verify choice is a valid folder with PDF files.",
     "Invalid output folder selection.",
     "Invalid file selection - verify that PDF #1 is a PDF file.",
     "Invalid file selection - verify that PDF #2 is a PDF file.",
     "Invalid file selection - verify that chosen files are PDF files.",
     "Folder does not contain PDF files",
     "Invalid file selection - verify that PDF #1 is a PDF file",
     "Invalid file selection - verify that PDF #2 is a PDF file",
     "Invalid file selections - verify that chosen files are PDF files",
     "Output filename must end with .pdf",
     "Invalid output folder selection"}

\* C4: in manual mode, while both selected files are not PDFs, the Merge
\* button is disabled and a validation message is shown, whatever the other
\* fields hold, before any merge was run.
C4_NonPdfKeepsMergeDisabled ==
    ( /\ IsGui /\ runs = 0
      /\ radio_selection = "manual_merge"
      /\ pdf1_path_var # "" /\ pdf2_path_var # ""
      /\ ~is_pdf_file(fs, pdf1_path_var) /\ ~is_pdf_file(fs, pdf2_path_var) )
    => merge_button = "disabled" /\ status_var \in ValidationMessages

\* some resolution and some stipulation of the names share a leading integer
SomePairable(names) ==
    \E r, s \in names :
        /\ IsResolutionFile(r) /\ IsStipulationFile(s)
        /\ HasLeadingInteger(r) /\ HasLeadingInteger(s)
        /\ extract_number(r) = extract_number(s)

\* C5: an automatic merge of a front end on a folder without a resolution and
\* a stipulation of equal key writes nothing and leaves a status message that
\* reports it (not "Ready", not a success message, not an empty one).
C5_NoPairsReported ==
    [][( /\ IsGui /\ AutoRunStep
         /\ isdir(fs, auto_folder_path_var)
         /\ ~SomePairable(DOMAIN fs[auto_folder_path_var]) )
       => /\ written' = <<>>
          /\ fs' = fs
          /\ status_var' \notin {"", "Ready", "Merge completed successfully."}]_vars

\* the folder the automatic flow reads
InputFolder == IF program = "merge_pdfs" THEN InDir ELSE auto_folder_path_var

\* C6: the automatic flow on a folder whose .pdf files are all resolution
\* files yields zero pairs and writes nothing.
C6_OnlyResolutionsNoWrite ==
    [][( /\ AutoRunStep
         /\ isdir(fs, InputFolder)
         /\ \E n \in DOMAIN fs[InputFolder] : IsResolutionFile(n)
         /\ \A n \in DOMAIN fs[InputFolder] : ~IsStipulationFile(n) )
       => /\ pair_list(pairs') = <<>>
          /\ written' = <<>>
          /\ \A d \in DOMAIN fs : fs'[d] = fs[d]]_vars

\* C6's case: the current front end ran on a folder holding one resolution
C6_Witness ==
    /\ program = "pdf_merge_tool"
    /\ runs = 1
    /\ listing = <<"12 cb3 reso.pdf">>
    /\ resolutions = <<"12 cb3 reso.pdf">>
    /\ written = <<>>

\* C7: in auto mode, while the input folder field holds a path that is not a
\* directory containing a PDF, the Merge button is disabled and a validation
\* message is shown.
C7_InvalidFolderKeepsMergeDisabled ==
    ( /\ IsGui /\ runs = 0
      /\ radio_selection = "auto_merge"
      /\ auto_folder_path_var # ""
      /\ ~(isdir(fs, auto_folder_path_var)
           /\ \E n \in DOMAIN fs[auto_folder_path_var] : endswith(lower(n), ".pdf")) )
    => merge_button = "disabled" /\ status_var \in ValidationMessages


\* the pages of the file at path
PagesAt(f, path) == f[DirOf(path)][BaseOf(path)].pages

\* C8: every merged output holds the pages of its first source, then those of
\* its second source, and nothing else: resolution then stipulation of the
\* i-th pair in the automatic flow, PDF #1 then PDF #2 under the user-supplied
\* name in the output folder in the manual flow.
C8_PagesInOrder ==
    [][runs' = runs + 1 =>
          \A i \in DOMAIN written' :
              LET w == written'[i]
              IN  /\ Len(w.sources) = 2
                  /\ w.pages = PagesAt(fs, w.sources[1]) \o PagesAt(fs, w.sources[2])
                  /\ (\A j \in DOMAIN written' : j > i => written'[j].path # w.path)
                        => fs'[DirOf(w.path)][BaseOf(w.path)] = PdfDoc(w.pages)
                  /\ IF program = "merge_pdfs" \/ radio_selection = "auto_merge"
                     THEN /\ i <= Len(pair_list(pairs'))
                          /\ IsResolutionFile(BaseOf(w.sources[1]))
                          /\ IsStipulationFile(BaseOf(w.sources[2]))
                          /\ BaseOf(w.sources[1]) = pair_list(pairs')[i][1]
                          /\ BaseOf(w.sources[2]) = pair_list(pairs')[i][2]
                          /\ DirOf(w.sources[1]) = InputFolder
                          /\ DirOf(w.sources[2]) = InputFolder
                     ELSE /\ w.sources = <<pdf1_path_var, pdf2_path_var>>
                          /\ BaseOf(w.path) = output_filename_var
                          /\ output_path_var # "" => DirOf(w.path) = output_path_var]_vars

\* C8's case: "12 cb3 reso.pdf" and "12 stipulation.pdf" merged into one output
C8_Witness ==
    /\ program = "pdf_merge_tool"
    /\ written = <<WriteRecord(join(OutDir, "12 cb3 reso wSTIPS.pdf"),
                              <<"12 cb3 reso.pdf#1", "12 cb3 reso.pdf#2",
                                "12 stipulation.pdf#1", "12 stipulation.pdf#2">>,
                              <<join(InDir, "12 cb3 reso.pdf"),
                                join(InDir, "12 stipulation.pdf")>>)>>
    /\ fs[OutDir]["12 cb3 reso wSTIPS.pdf"].pages = written[1].pages

\* position of a name in a bucket (the buckets hold no name twice)
IndexIn(seq, x) == CHOOSE i \in DOMAIN seq : seq[i] = x

InBucket(name, bucket) == name \in Range(bucket)

\* C10 as stated: every listing entry ending in ".pdf" is in exactly one
\* bucket, the resolution bucket iff its lowercased name contains "cb3 reso",
\* and no other entry is in a bucket.
C10_PartitionAllPdfs ==
    \A name \in Range(listing) :
        IF endswith(name, ".pdf")
        THEN /\ InBucket(name, resolutions) # InBucket(name, stipulations)
             /\ InBucket(name, resolutions) <=> contains(lower(name), "cb3 reso")
        ELSE ~InBucket(name, resolutions) /\ ~InBucket(name, stipulations)

\* C10 amended: the same, of the entries the program classifies: in
\* merge_pdfs.py every entry ending in ".pdf", in the front ends those that
\* also start with a leading integer; every other entry is in no bucket, and
\* the buckets hold listing entries only, each once.
C10_PartitionClassified ==
    /\ \A name \in Range(listing) :
          IF endswith(name, ".pdf")
             /\ (program = "merge_pdfs" \/ HasLeadingInteger(name))
          THEN /\ InBucket(name, resolutions) # InBucket(name, stipulations)
               /\ InBucket(name, resolutions) <=> contains(lower(name), "cb3 reso")
          ELSE ~InBucket(name, resolutions) /\ ~InBucket(name, stipulations)
    /\ Range(resolutions) \cup Range(stipulations) \subseteq Range(listing)
    /\ Cardinality(Range(resolutions)) = Len(resolutions)
    /\ Cardinality(Range(stipulations)) = Len(stipulations)

\* C10's case: a front end classified a folder holding a .pdf without a
\* leading integer, which went to neither bucket
C10_Witness ==
    /\ program = "pdf_merge_tool"
    /\ Range(listing) = {"cb3 reso.pdf", "12 stipulation.pdf"}
    /\ resolutions = <<>>
    /\ stipulations = <<"12 stipulation.pdf">>


\* the number of whitespace characters a name starts with
LeadingSpaces(name) ==
    CHOOSE k \in 0..Len(name) :
        /\ \A i \in 1..k : IsSpace(At(name, i))
        /\ k = Len(name) \/ ~IsSpace(At(name, k + 1))

\* the position of the last digit of the run that follows them (that of the
\* last whitespace character when no digit follows)
LeadingDigitsEnd(name) ==
    CHOOSE m \in LeadingSpaces(name)..Len(name) :
        /\ \A i \in (LeadingSpaces(name) + 1)..m : IsDigit(At(name, i))
        /\ m = Len(name) \/ ~IsDigit(At(name, m + 1))

\* the value in base ten of the digits of name at positions j..m
RECURSIVE PositionalValue(_, _, _)
PositionalValue(name, j, m) ==
    IF j > m THEN 0
    ELSE DigitValue(At(name, j)) * 10 ^ (m - j) + PositionalValue(name, j + 1, m)

\* the key the claims give a name: the value of its leading integer, if any
KeyOf(name) ==
    IF LeadingDigitsEnd(name) > LeadingSpaces(name)
    THEN Some(PositionalValue(name, LeadingSpaces(name) + 1, LeadingDigitsEnd(name)))
    ELSE None

\* C11: extract_number of every listed name is the integer value of the
\* maximal run of digits that follows its leading whitespace, None when there
\* is no such run; a bucketed resolution and stipulation are paired exactly
\* when these keys are equal, so leading zeros, leading whitespace and later
\* digits make no difference.
C11_LeadingIntegerKey ==
    /\ \A name \in Range(listing) : extract_number(name) = KeyOf(name)
    /\ \A r \in Range(resolutions) : \A s \in Range(stipulations) :
          <<r, s>> \in PairSet <=> KeyOf(r) = KeyOf(s)

\* C11's case: "007 cb3 reso.pdf" is paired with " 7 stips.pdf", and "12"
\* later in "7 lot 12.pdf" does not pair it with a resolution of key 12
C11_Witness ==
    /\ <<"007 cb3 reso.pdf", " 7 stips.pdf">> \in PairSet
    /\ KeyOf("007 cb3 reso.pdf") = Some(7)
    /\ \E l \in Range(listing) :
          l \in {"7 lot 12.pdf", "cb3 reso.pdf"} /\ l \notin {p[2] : p \in PairSet}


\* what main() of merge_pdfs.py does on a listing, with the given folders
ScriptRun(f, files, input_folder, output_folder) ==
    merge_loop(MergeStart(makedirs(f, output_folder)), pair_list(pair_files(files)),
               input_folder, output_folder)

\* C12: on every listing a front end's auto_merge_pdfs merges the list of
\* pairs main() of the script merges and writes the same output files, the
\* input and output folders being the same existing directories.
C12_SameMergesAsScript ==
    [][( /\ IsGui /\ AutoRunStep
         /\ isdir(fs, auto_folder_path_var) /\ isdir(fs, output_path_var) )
       => /\ pair_list(pairs') = pair_list(pair_files(listing'))
          /\ written' = ScriptRun(fs, listing', auto_folder_path_var,
                                  output_path_var).written]_vars


\* the sources of a pair in the folder the automatic flow reads
PairSources(p) == <<join(InputFolder, p[1]), join(InputFolder, p[2])>>

\* pypdf fails on a merge of these sources into this path, the files being f
LibraryFails(f, sources, path) ==
    \/ \E i \in DOMAIN sources : ~CanAppend(f, sources[i])
    \/ ~CanWrite(f, path)

SuccessStatus == "Merge completed successfully."

\* C13: a run of the automatic merge writes the pairs in order, each once, up
\* to the first pair on which the library fails and none after it; the
\* outputs of the earlier pairs stay in the output folder, nothing else is
\* touched, and the success status is shown only by a run that wrote every
\* pair (a run that stopped leaves the status as it was).  The manual merge
\* likewise writes nothing and shows nothing when the library fails.
C13_FailureStopsRun ==
    [][runs' = runs + 1 =>
          LET ps == pair_list(pairs')
              n  == Len(written')
          IN  IF program = "merge_pdfs" \/ radio_selection = "auto_merge"
              THEN /\ n <= Len(ps)
                   /\ \A i \in 1..n : written'[i].sources = PairSources(ps[i])
                   /\ n < Len(ps) =>
                         /\ LibraryFails(fs', PairSources(ps[n + 1]),
                                         join(IF program = "merge_pdfs" THEN OutDir
                                              ELSE output_path_var,
                                              output_name_of(ps[n + 1])))
                         /\ status_var' = status_var
                   /\ \A i \in 1..n : isfile(fs', written'[i].path)
                   /\ \A d \in DOMAIN fs : \A name \in DOMAIN fs[d] :
                         /\ name \in DOMAIN fs'[d]
                         /\ fs'[d][name] # fs[d][name]
                               => \E i \in 1..n : written'[i].path = join(d, name)
                   /\ (status_var' = SuccessStatus /\ status_var # SuccessStatus)
                         => n = Len(ps) /\ n > 0
              ELSE /\ n <= 1
                   /\ n = 0 =>
                         /\ LibraryFails(fs, <<pdf1_path_var, pdf2_path_var>>,
                                         join(output_path_var, output_filename_var))
                         /\ fs' = fs
                         /\ status_var' = status_var
                   /\ (status_var' = SuccessStatus /\ status_var # SuccessStatus)
                         => n = 1]_vars

\* C13's case: pdf_merge_tool.py ran the automatic merge on a pair whose
\* stipulation pypdf cannot read: nothing was written and no success is shown
C13_Witness ==
    /\ program = "pdf_merge_tool"
    /\ runs > 0
    /\ pair_list(pairs) = <<(<<"12 cb3 reso.pdf", "12 damaged.pdf">>)>>
    /\ written = <<>>
    /\ status_var # SuccessStatus


\* C14: when a radio button has switched the mode and on_radio_option_change
\* with the callbacks it triggers has finished, the status message is empty,
\* the five input fields are empty and the Merge button is disabled.
C14_SwitchResetsForm ==
    [][radio_selection' # radio_selection =>
          /\ status_var' = ""
          /\ auto_folder_path_var' = ""
          /\ output_path_var' = ""
          /\ pdf1_path_var' = ""
          /\ pdf2_path_var' = ""
          /\ output_filename_var' = ""
          /\ merge_button' = "disabled"]_vars


\* every field the current mode requires is non-empty
RequiredFilled ==
    IF radio_selection = "auto_merge"
    THEN auto_folder_path_var # "" /\ output_path_var # ""
    ELSE /\ radio_selection = "manual_merge"
         /\ pdf1_path_var # "" /\ pdf2_path_var # ""
         /\ output_filename_var # "" /\ output_path_var # ""

\* C15: in pdf_merge_tool.py the Merge button is enabled if and only if every
\* field the current mode requires is non-empty.
C15_EnabledIffFilled ==
    program = "pdf_merge_tool" => (merge_button = "normal" <=> RequiredFilled)

\* C15's case: an output filename typed in manual mode is still there in auto
\* mode, where the button is enabled by the two folder fields alone
C15_Witness ==
    /\ program = "pdf_merge_tool"
    /\ radio_selection = "auto_merge"
    /\ output_filename_var = "merged.pdf"
    /\ auto_folder_path_var # "" /\ output_path_var # ""
    /\ merge_button = "normal"


\* an existing file with the extension .pdf
ExistingPdf(path) == isfile(fs, path) /\ endswith(lower(path), ".pdf")

\* the inputs of the current mode are what the claims call valid
InputsValid ==
    /\ isdir(fs, output_path_var)
    /\ IF radio_selection = "auto_merge"
       THEN /\ isdir(fs, auto_folder_path_var)
            /\ \E name \in DOMAIN fs[auto_folder_path_var] : endswith(lower(name), ".pdf")
       ELSE /\ ExistingPdf(pdf1_path_var) /\ ExistingPdf(pdf2_path_var)
            /\ endswith(output_filename_var, ".pdf")

\* the messages validate_inputs shows
RejectionMessages ==
    {"Folder does not contain PDF files",
     "Invalid file selection - verify that PDF #1 is a PDF file",
     "Invalid file selection - verify that PDF #2 is a PDF file",
     "Invalid file selections - verify that chosen files are PDF files",
     "Output filename must end with .pdf",
     "Invalid output folder selection"}

\* C16: in pdf_merge_tool.py a merge runs, and a file is written, only from a
\* form whose inputs are valid at the click; a click on a form whose inputs are
\* not valid is rejected with a red validation message and changes no field.
C16_ClickValidates ==
    /\ [][program = "pdf_merge_tool" /\ (runs' # runs \/ fs' # fs \/ written' # written)
            => InputsValid]_vars
    /\ [](program = "pdf_merge_tool" /\ merge_button = "normal" /\ ~InputsValid
            => LET v == validate_inputs(Form, fs)
               IN  /\ ~v.valid
                   /\ v.g.status_fg = "red"
                   /\ v.g.status_var \in RejectionMessages
                   /\ v.g = [Form EXCEPT !.status_var = v.g.status_var,
                                         !.status_fg = "red"])

\* C16's case: a click in manual mode with the output filename "merged" was
\* rejected: the red message is shown and nothing was merged
C16_Witness ==
    /\ program = "pdf_merge_tool"
    /\ radio_selection = "manual_merge"
    /\ output_filename_var = "merged"
    /\ status_var = "Output filename must end with .pdf"
    /\ status_fg = "red"
    /\ merge_button = "normal"
    /\ runs = 0 /\ written = <<>>


\* C17: in pdf_merge_tool.py the status "Ready" is shown only while the Merge
\* button is enabled.
C17_ReadyMeansEnabled ==
    program = "pdf_merge_tool" /\ status_var = "Ready" => merge_button = "normal"

\* the state of each input control that on_radio_option_change configures
\* when auto mode is the first mode selected on the fresh form
AutoFirstWidgets == config_widgets("pdf_merge_tool", InitialWidgets("pdf_merge_tool"), "auto_merge")
ManualFirstWidgets == config_widgets("pdf_merge_tool", InitialWidgets("pdf_merge_tool"), "manual_merge")

\* C18: in pdf_merge_tool.py the state of every input control is determined by
\* the selected mode: in auto mode the auto controls are enabled, the
\* manual-only controls disabled and the output folder field as it is when
\* auto mode is selected first; symmetrically in manual mode.
C18_WidgetsByModeAlone ==
    program = "pdf_merge_tool" =>
        /\ radio_selection = "auto_merge" =>
              /\ widgets.folder_field = "normal"
              /\ widgets.browse_button = "normal"
              /\ widgets.output_browse_button = "normal"
              /\ widgets.chosen_pdf_1 = "disabled"
              /\ widgets.chosen_pdf_2 = "disabled"
              /\ widgets.output_name = "disabled"
              /\ widgets.browse_pdf1_button = "disabled"
              /\ widgets.browse_pdf2_button = "disabled"
              /\ widgets.output_folder_field = AutoFirstWidgets.output_folder_field
        /\ radio_selection = "manual_merge" =>
              /\ widgets.folder_field = "disabled"
              /\ widgets.browse_button = "disabled"
              /\ widgets.output_browse_button = "normal"
              /\ widgets.chosen_pdf_1 = "normal"
              /\ widgets.chosen_pdf_2 = "normal"
              /\ widgets.output_name = "normal"
              /\ widgets.browse_pdf1_button = "normal"
              /\ widgets.browse_pdf2_button = "normal"
              /\ widgets.output_folder_field = ManualFirstWidgets.output_folder_field


\* C19: a run of the automatic merge writes no output path twice, and when it
\* ends the file at the path of every write holds the pages of that write.
C19_DistinctOutputs ==
    [][AutoRunStep =>
          /\ \A i, j \in DOMAIN written' :
                i # j => written'[i].path # written'[j].path
          /\ \A i \in DOMAIN written' :
                fs'[DirOf(written'[i].path)][BaseOf(written'[i].path)].pages
                    = written'[i].pages]_vars


\* the output files of a run: the name written and the pair it was merged from
Outputs(ws) == {<<ws[i].path, ws[i].sources>> : i \in DOMAIN ws}

\* the step is a second automatic merge in a front end, on the input and
\* output folders of the first one, which wrote a file
SecondRunSameFolders ==
    /\ IsGui /\ AutoRunStep /\ runs = 1
    /\ written # <<>>
    /\ listing # <<>>
    /\ DirOf(written[1].sources[1]) = auto_folder_path_var
    /\ DirOf(written[1].path) = output_path_var

\* C20: a second automatic merge on the same input and output folders leaves
\* the output files of the first one: the same names in the output folder,
\* merged from the same pairs.
C20_Idempotent ==
    [][SecondRunSameFolders =>
          /\ DOMAIN fs'[output_path_var] = DOMAIN fs[output_path_var]
          /\ Outputs(written') = Outputs(written)]_vars

=============================================================================
